---- MODULE Spec2Model ----
(***************************************************************************)
(* OffsetAllocator (sebbbi/OffsetAllocator): the allocator of              *)
(* src/offsetAllocator.cpp as a state machine.                             *)
(*                                                                         *)
(* Number representation.  The program's integers are uint32.  Every value *)
(* below 2^31 is written as itself; the one value at or above 2^31 the     *)
(* program uses, 0xFFFFFFFF (Allocation::NO_SPACE, Node::unused, and the   *)
(* cursor m_freeOffset of an empty slot stack), is written -1, its two's   *)
(* complement reading, and so on downwards (0xFFFFFFFE is -2).  ++ and --  *)
(* on the cursor and -= on m_freeStorage are then plain +1, -1 and -: a    *)
(* negative m_freeStorage is an unsigned wrap below 0.                     *)
(***************************************************************************)
EXTENDS Integers, Naturals, Sequences, FiniteSets, TLC

\* ------------------------------------------------------------------ bounds
\* Largest capacity (m_size) a constructed allocator has.
MaxSize == 20
\* Largest of the small sizes a caller asks for.
MaxReq == 2
\* The caller never holds more than MaxLive allocations at once.
MaxLive == 3
\* The caller makes at most MaxCalls calls of allocate in a run.
MaxCalls == 4
\* Largest pool (maxAllocs) of the small-pool specification SpecPool.
MaxPool == 4
\* Every size up to MaxFloatSize is given to the SmallFloat encoders.
MaxFloatSize == 300

\* ------------------------------------------------------- program constants
NO_SPACE == -1
unused == -1
MANTISSA_BITS == 3
MANTISSA_VALUE == 2 ^ MANTISSA_BITS
MANTISSA_MASK == MANTISSA_VALUE - 1
NUM_TOP_BINS == 32
BINS_PER_LEAF == 8
TOP_BINS_INDEX_SHIFT == 3
LEAF_BINS_INDEX_MASK == 7
NUM_LEAF_BINS == NUM_TOP_BINS * BINS_PER_LEAF

\* ------------------------------------------------------------ bit helpers
\* bit i of x
Bit(x, i) == (x \div (2 ^ i)) % 2
\* x & mask, for mask = 2^k - 1
AndLowMask(x, mask) == x % (mask + 1)
\* x & ~mask, for mask = 2^k - 1
AndNotLowMask(x, mask) == x - (x % (mask + 1))
\* x |= 1 << i
OrBit(x, i) == IF Bit(x, i) = 1 THEN x ELSE x + 2 ^ i
\* x &= ~(1 << i)
ClearBit(x, i) == IF Bit(x, i) = 1 THEN x - 2 ^ i ELSE x
\* x >> k (a negative x is the uint32 2^32 + x)
ShiftRight(x, k) == IF x >= 0 THEN x \div (2 ^ k) ELSE 2 ^ (32 - k) + (x \div (2 ^ k))
\* x << k in 32 bits: the bits shifted past bit 31 are lost, and a result with
\* bit 31 set is written as the negative number it is in two's complement
ShiftLeft(x, k) ==
  IF k = 0 THEN x
  ELSE IF (x \div (2 ^ (31 - k))) % 2 = 1
  THEN ((x % (2 ^ (31 - k))) * (2 ^ k) - 2 ^ 30) - 2 ^ 30
  ELSE (x % (2 ^ (31 - k))) * (2 ^ k)
\* position of the highest set bit of x # 0 (31 - __builtin_clz(x)); bit 31 is
\* set exactly in the values written as negative numbers
HighestSetBit(x) ==
  IF x < 0 THEN 31
  ELSE CHOOSE h \in 0..30 : 2 ^ h <= x /\ (h = 30 \/ x < 2 ^ (h + 1))
\* unsigned x < y, for y below 2^31
Below(x, y) == x >= 0 /\ x < y
\* unsigned x <= y
AtMost(x, y) == IF (x >= 0) = (y >= 0) THEN x <= y ELSE y < 0
\* unsigned x - y, for x >= y and a difference below 2^31
Minus(x, y) ==
  IF (x >= 0) = (y >= 0) THEN x - y
  ELSE ((x + (2 ^ 30 - 1)) + 2 ^ 30 + 1) + (((2 ^ 30 - 1) + 2 ^ 30) - y) + 1
\* unsigned x - 1, for x # 0
Pred(x) == IF x = (0 - 2 ^ 30) - 2 ^ 30 THEN (2 ^ 30 - 1) + 2 ^ 30 ELSE x - 1
\* __builtin_clz(x), x # 0
builtin_clz(x) == 31 - HighestSetBit(x)
\* __builtin_ctz(x), for x # 0 below 2^31
builtin_ctz(x) == CHOOSE i \in 0..30 : Bit(x, i) = 1 /\ \A j \in 0..(i - 1) : Bit(x, j) = 0

\* ------------------------------------------------------------- SmallFloat
\* Mutant of uintToFloatRoundUp: the "Round up!" step is left out.
uintToFloatRoundUp_noRoundUp(size) ==
  IF Below(size, MANTISSA_VALUE)
  THEN size
  ELSE LET highestSetBit == HighestSetBit(size)
           mantissaStartBit == highestSetBit - MANTISSA_BITS
       IN  ShiftLeft(mantissaStartBit + 1, MANTISSA_BITS)
             + AndLowMask(ShiftRight(size, mantissaStartBit), MANTISSA_MASK)

\* Mutant of uintToFloatRoundUp: the increment of the mantissa does not carry
\* into the exponent.
uintToFloatRoundUp_noCarry(size) ==
  IF Below(size, MANTISSA_VALUE)
  THEN size
  ELSE LET highestSetBit == HighestSetBit(size)
           mantissaStartBit == highestSetBit - MANTISSA_BITS
           mantissa == AndLowMask(ShiftRight(size, mantissaStartBit), MANTISSA_MASK)
           lowBitsMask == ShiftLeft(1, mantissaStartBit) - 1
           rounded == IF AndLowMask(size, lowBitsMask) # 0
                      THEN AndLowMask(mantissa + 1, MANTISSA_MASK)
                      ELSE mantissa
       IN  ShiftLeft(mantissaStartBit + 1, MANTISSA_BITS) + rounded

uintToFloatRoundUp(size) ==
  IF Below(size, MANTISSA_VALUE)
  THEN size
  ELSE LET leadingZeros == builtin_clz(size)
           highestSetBit == 31 - leadingZeros
           mantissaStartBit == highestSetBit - MANTISSA_BITS
           exp == mantissaStartBit + 1
           mantissa == AndLowMask(ShiftRight(size, mantissaStartBit), MANTISSA_MASK)
           lowBitsMask == ShiftLeft(1, mantissaStartBit) - 1
           rounded == IF AndLowMask(size, lowBitsMask) # 0 THEN mantissa + 1 ELSE mantissa
       IN  ShiftLeft(exp, MANTISSA_BITS) + rounded

\* Mutant of uintToFloatRoundDown: the mantissa is dropped.
uintToFloatRoundDown_noMantissa(size) ==
  IF Below(size, MANTISSA_VALUE)
  THEN size
  ELSE ShiftLeft(HighestSetBit(size) - MANTISSA_BITS + 1, MANTISSA_BITS)

uintToFloatRoundDown(size) ==
  IF Below(size, MANTISSA_VALUE)
  THEN size
  ELSE LET leadingZeros == builtin_clz(size)
           highestSetBit == 31 - leadingZeros
           mantissaStartBit == highestSetBit - MANTISSA_BITS
           exp == mantissaStartBit + 1
           mantissa == AndLowMask(ShiftRight(size, mantissaStartBit), MANTISSA_MASK)
       IN  ShiftLeft(exp, MANTISSA_BITS) + mantissa

\* Mutant of floatToUint: the implicit leading one of the mantissa is left out.
floatToUint_noLeadingOne(floatValue) ==
  LET exponent == ShiftRight(floatValue, MANTISSA_BITS)
      mantissa == AndLowMask(floatValue, MANTISSA_MASK)
  IN  IF exponent = 0
      THEN mantissa
      ELSE ShiftLeft(mantissa, exponent - 1)

floatToUint(floatValue) ==
  LET exponent == ShiftRight(floatValue, MANTISSA_BITS)
      mantissa == AndLowMask(floatValue, MANTISSA_MASK)
  IN  IF exponent = 0
      THEN mantissa
      ELSE ShiftLeft(mantissa + MANTISSA_VALUE, exponent - 1)

\* ------------------------------------------------------ utility functions
findLowestSetBitAfter(bitMask, startBitIndex) ==
  LET maskBeforeStartIndex == ShiftLeft(1, startBitIndex) - 1
      bitsAfter == AndNotLowMask(bitMask, maskBeforeStartIndex)
  IN  IF bitsAfter = 0 THEN NO_SPACE ELSE builtin_ctz(bitsAfter)

\* ------------------------------------------------------------------ state
VARIABLES
  m_size,          \* uint32 m_size: the capacity N
  maxAllocs,       \* length of m_nodes and of m_freeNodes
  m_freeStorage,   \* uint32 m_freeStorage
  m_usedBinsTop,   \* uint32 m_usedBinsTop
  m_usedBins,      \* uint8 m_usedBins[NUM_TOP_BINS]
  m_binIndices,    \* uint32 m_binIndices[NUM_LEAF_BINS]
  m_nodes,         \* Node m_nodes[maxAllocs]
  m_freeNodes,     \* uint32 m_freeNodes[maxAllocs]
  m_freeOffset,    \* uint32 m_freeOffset
  fault,           \* "none", or how an out-of-bounds array access ended
  live,            \* the handles the caller holds, each with its requested size
  calls,           \* the number of allocate calls the caller has made
  last,            \* the last call made: its name, argument and return value
  before,          \* the call made before the last one
  frees,           \* the number of free calls the caller has made
  threads          \* of each thread inside allocate: where it is and its locals

allocatorVars == <<m_size, maxAllocs, m_freeStorage, m_usedBinsTop, m_usedBins,
                   m_binIndices, m_nodes, m_freeNodes, m_freeOffset>>
vars == <<m_size, maxAllocs, m_freeStorage, m_usedBinsTop, m_usedBins,
          m_binIndices, m_nodes, m_freeNodes, m_freeOffset, fault, live, calls, last,
          before, frees, threads>>

\* struct Node with its default member initializers
Node ==
  [dataOffset |-> 0, dataSize |-> 0, binListPrev |-> unused, binListNext |-> unused,
   neighborPrev |-> unused, neighborNext |-> unused, used |-> FALSE]

\* The allocator object as one value, for the methods below to take and return.
self ==
  [m_size |-> m_size, maxAllocs |-> maxAllocs, m_freeStorage |-> m_freeStorage,
   m_usedBinsTop |-> m_usedBinsTop, m_usedBins |-> m_usedBins,
   m_binIndices |-> m_binIndices, m_nodes |-> m_nodes, m_freeNodes |-> m_freeNodes,
   m_freeOffset |-> m_freeOffset, fault |-> fault]

\* An index the array of length len has.
InRange(i, len) == i >= 0 /\ i < len

\* ------------------------------------------------------- private methods
\* The statements of a method run in sequence: step is [x \in {e} |-> b], the
\* statements b run in the state x that the statements e left, and e is
\* computed once.
InSequence(step) == CHOOSE r \in {g[CHOOSE x \in DOMAIN g : TRUE] : g \in {step}} : TRUE

\* insertNodeIntoBin(size, dataOffset) up to the update of m_freeStorage: the
\* bin's mask bits are set, a slot is popped and the node put on top of the
\* bin list.  garbage is what the read of m_freeNodes[m_freeOffset] yields
\* when m_freeOffset is outside the array (undefined behaviour): a slot index,
\* or unused for any value that is none, in which case the write to
\* m_nodes[nodeIndex] is out of bounds too and the call ends there ("crash").
\* Returns the allocator and nodeIndex.
linkNodeIntoBin(a, size, dataOffset, garbage) ==
  LET binIndex == uintToFloatRoundDown(size)
      topBinIndex == ShiftRight(binIndex, TOP_BINS_INDEX_SHIFT)
      leafBinIndex == AndLowMask(binIndex, LEAF_BINS_INDEX_MASK)
      topNodeIndex == a.m_binIndices[binIndex]
      inBounds == InRange(a.m_freeOffset, a.maxAllocs)
      nodeIndex == IF inBounds THEN a.m_freeNodes[a.m_freeOffset] ELSE garbage
  IN  IF a.fault = "crash"
      THEN [a |-> a, nodeIndex |-> unused]
      ELSE
        \* set bin mask bits if the bin was empty, then take a freelist node
        InSequence([a2 \in {IF topNodeIndex = unused
                            THEN [a EXCEPT !.m_usedBins[topBinIndex] = OrBit(@, leafBinIndex),
                                           !.m_usedBinsTop = OrBit(@, topBinIndex),
                                           !.m_freeOffset = @ - 1,
                                           !.fault = IF inBounds THEN @ ELSE "oob"]
                            ELSE [a EXCEPT !.m_freeOffset = @ - 1,
                                           !.fault = IF inBounds THEN @ ELSE "oob"]} |->
            IF ~InRange(nodeIndex, a2.maxAllocs)
            THEN [a |-> [a2 EXCEPT !.fault = "crash"], nodeIndex |-> nodeIndex]
            ELSE
              InSequence([a3 \in {[a2 EXCEPT !.m_nodes[nodeIndex] =
                                     [Node EXCEPT !.dataOffset = dataOffset, !.dataSize = size,
                                                  !.binListNext = topNodeIndex]]} |->
                  InSequence([a4 \in {IF topNodeIndex # unused
                                      THEN [a3 EXCEPT !.m_nodes[topNodeIndex].binListPrev = nodeIndex]
                                      ELSE a3} |->
                      [a |-> [a4 EXCEPT !.m_binIndices[binIndex] = nodeIndex],
                       nodeIndex |-> nodeIndex]])])])

\* Mutant of insertNodeIntoBin: m_freeStorage is not updated.
insertNodeIntoBin_noCount(a, size, dataOffset, garbage) ==
  linkNodeIntoBin(a, size, dataOffset, garbage)

\* insertNodeIntoBin(size, dataOffset): the node is linked, then
\* m_freeStorage += size.
insertNodeIntoBin(a, size, dataOffset, garbage) ==
  InSequence([linked \in {linkNodeIntoBin(a, size, dataOffset, garbage)} |->
      IF linked.a.fault = "crash"
      THEN linked
      ELSE [linked EXCEPT !.a.m_freeStorage = @ + size]])

\* m_freeNodes[++m_freeOffset] = nodeIndex; a write outside the array ends the
\* call ("crash").
pushFreeNode(a, nodeIndex) ==
  IF a.fault = "crash" THEN a
  ELSE IF ~InRange(a.m_freeOffset + 1, a.maxAllocs)
  THEN [a EXCEPT !.m_freeOffset = @ + 1, !.fault = "crash"]
  ELSE [a EXCEPT !.m_freeOffset = @ + 1, !.m_freeNodes[a.m_freeOffset + 1] = nodeIndex]

\* removeNodeFromBin(nodeIndex), the hard case: the node is the first of its
\* bin.
unlinkFirstOfBin(a, nodeIndex) ==
  LET node == a.m_nodes[nodeIndex]
      binIndex == uintToFloatRoundDown(node.dataSize)
      topBinIndex == ShiftRight(binIndex, TOP_BINS_INDEX_SHIFT)
      leafBinIndex == AndLowMask(binIndex, LEAF_BINS_INDEX_MASK)
  IN  InSequence([h1 \in {[a EXCEPT !.m_binIndices[binIndex] = node.binListNext]} |->
          InSequence([h2 \in {IF node.binListNext # unused
                              THEN [h1 EXCEPT !.m_nodes[node.binListNext].binListPrev = unused]
                              ELSE h1} |->
              \* bin empty?  remove a leaf bin mask bit
              IF h2.m_binIndices[binIndex] # unused THEN h2
              ELSE
                InSequence([h3 \in {[h2 EXCEPT !.m_usedBins[topBinIndex] = ClearBit(@, leafBinIndex)]} |->
                    \* all leaf bins empty?  remove a top bin mask bit
                    IF h3.m_usedBins[topBinIndex] = 0
                    THEN [h3 EXCEPT !.m_usedBinsTop = ClearBit(@, topBinIndex)]
                    ELSE h3])])])

\* Mutant of unlinkInsideBin: the previous node of the bin list keeps
\* pointing at the removed node.
unlinkInsideBin_noForwardLink(a, nodeIndex) ==
  LET node == a.m_nodes[nodeIndex]
  IN  IF node.binListNext # unused
      THEN [a EXCEPT !.m_nodes[node.binListNext].binListPrev = node.binListPrev]
      ELSE a

\* removeNodeFromBin(nodeIndex), the easy case: the node has a previous node
\* in its bin list.
unlinkInsideBin(a, nodeIndex) ==
  LET node == a.m_nodes[nodeIndex]
  IN  InSequence([e1 \in {[a EXCEPT !.m_nodes[node.binListPrev].binListNext = node.binListNext]} |->
          IF node.binListNext # unused
          THEN [e1 EXCEPT !.m_nodes[node.binListNext].binListPrev = node.binListPrev]
          ELSE e1])

\* Mutant of removeNodeFromBin: the slot of the removed node is not put back
\* on the freelist.
removeNodeFromBin_noPush(a, nodeIndex) ==
  LET node == a.m_nodes[nodeIndex]
  IN  IF a.fault = "crash" THEN a
      ELSE
        InSequence([unlinked \in {IF node.binListPrev # unused
                                  THEN unlinkInsideBin(a, nodeIndex)
                                  ELSE unlinkFirstOfBin(a, nodeIndex)} |->
            [unlinked EXCEPT !.m_freeStorage = @ - node.dataSize]])

\* Mutant of removeNodeFromBin: m_freeStorage is not updated.
removeNodeFromBin_noCount(a, nodeIndex) ==
  LET node == a.m_nodes[nodeIndex]
  IN  IF a.fault = "crash" THEN a
      ELSE
        InSequence([unlinked \in {IF node.binListPrev # unused
                                  THEN unlinkInsideBin(a, nodeIndex)
                                  ELSE unlinkFirstOfBin(a, nodeIndex)} |->
            pushFreeNode(unlinked, nodeIndex)])

\* removeNodeFromBin(nodeIndex)
removeNodeFromBin(a, nodeIndex) ==
  LET node == a.m_nodes[nodeIndex]
  IN  IF a.fault = "crash" THEN a
      ELSE
        InSequence([unlinked \in {IF node.binListPrev # unused
                                  THEN unlinkInsideBin(a, nodeIndex)
                                  ELSE unlinkFirstOfBin(a, nodeIndex)} |->
            \* insert the node to the freelist
            InSequence([pushed \in {pushFreeNode(unlinked, nodeIndex)} |->
                IF pushed.fault = "crash" THEN pushed
                ELSE [pushed EXCEPT !.m_freeStorage = @ - node.dataSize]])])

\* -------------------------------------------------------- public methods
\* Allocator::Allocator(size, maxAllocs): the freshly constructed allocator.
Allocator(size, maxAllocs_) ==
  InSequence([empty \in {[m_size |-> size, maxAllocs |-> maxAllocs_, m_freeStorage |-> 0,
                          m_usedBinsTop |-> 0,
                          m_usedBins |-> [i \in 0..(NUM_TOP_BINS - 1) |-> 0],
                          m_binIndices |-> [i \in 0..(NUM_LEAF_BINS - 1) |-> unused],
                          m_nodes |-> [i \in 0..(maxAllocs_ - 1) |-> Node],
                          m_freeNodes |-> [i \in 0..(maxAllocs_ - 1) |-> maxAllocs_ - i - 1],
                          m_freeOffset |-> maxAllocs_ - 1, fault |-> "none"]} |-> insertNodeIntoBin(empty, size, 0, unused).a])

\* Mutant of findBin: the leaf scan starts at bit 0 in every word.
findBin_noLeafFloor(a, size) ==
  LET minBinIndex == uintToFloatRoundUp(size)
      minTopBinIndex == ShiftRight(minBinIndex, TOP_BINS_INDEX_SHIFT)
  IN  InSequence([topBinIndex \in {findLowestSetBitAfter(a.m_usedBinsTop, minTopBinIndex)} |->
          [topBinIndex |-> topBinIndex,
           leafBinIndex |->
             IF topBinIndex = NO_SPACE THEN NO_SPACE
             ELSE findLowestSetBitAfter(a.m_usedBins[topBinIndex], 0)]])

\* Mutant of findBin: the leaf scan keeps the floor of minBinIndex in a
\* higher word too.
findBin_keepsLeafFloor(a, size) ==
  LET minBinIndex == uintToFloatRoundUp(size)
      minTopBinIndex == ShiftRight(minBinIndex, TOP_BINS_INDEX_SHIFT)
  IN  InSequence([topBinIndex \in {findLowestSetBitAfter(a.m_usedBinsTop, minTopBinIndex)} |->
          [topBinIndex |-> topBinIndex,
           leafBinIndex |->
             IF topBinIndex = NO_SPACE THEN NO_SPACE
             ELSE findLowestSetBitAfter(a.m_usedBins[topBinIndex],
                                        AndLowMask(minBinIndex, LEAF_BINS_INDEX_MASK))]])

\* Allocator::allocate(size), the search: the top and the leaf index of the
\* lowest occupied bin that fits size, NO_SPACE where a scan finds none (the
\* leaf scan is not made after a failed top scan).
findBin(a, size) ==
  LET minBinIndex == uintToFloatRoundUp(size)
      minTopBinIndex == ShiftRight(minBinIndex, TOP_BINS_INDEX_SHIFT)
  IN  InSequence([topBinIndex \in {findLowestSetBitAfter(a.m_usedBinsTop, minTopBinIndex)} |->
          LET minLeafBinIndex == IF minTopBinIndex # topBinIndex
                                 THEN 0
                                 ELSE AndLowMask(minBinIndex, LEAF_BINS_INDEX_MASK)
          IN  [topBinIndex |-> topBinIndex,
               leafBinIndex |->
                 IF topBinIndex = NO_SPACE THEN NO_SPACE
                 ELSE findLowestSetBitAfter(a.m_usedBins[topBinIndex], minLeafBinIndex)]])

\* Mutant of popTopOfBin: the popped node keeps the size of the whole region.
popTopOfBin_keepsSize(a, topBinIndex, leafBinIndex, size) ==
  LET binIndex == ShiftLeft(topBinIndex, TOP_BINS_INDEX_SHIFT) + leafBinIndex
      nodeIndex == a.m_binIndices[binIndex]
      node == a.m_nodes[nodeIndex]
  IN  InSequence([a1 \in {[a EXCEPT !.m_nodes[nodeIndex].used = TRUE,
                                    !.m_binIndices[binIndex] = node.binListNext,
                                    !.m_freeStorage = @ - node.dataSize]} |->
          InSequence([a2 \in {IF node.binListNext # unused
                              THEN [a1 EXCEPT !.m_nodes[node.binListNext].binListPrev = unused]
                              ELSE a1} |->
              IF a2.m_binIndices[binIndex] # unused THEN a2
              ELSE
                InSequence([a3 \in {[a2 EXCEPT !.m_usedBins[topBinIndex] = ClearBit(@, leafBinIndex)]} |->
                    IF a3.m_usedBins[topBinIndex] = 0
                    THEN [a3 EXCEPT !.m_usedBinsTop = ClearBit(@, topBinIndex)]
                    ELSE a3])])])

\* Mutant of popTopOfBin: the top bin mask bit stays set when the last leaf
\* bin of the word empties.
popTopOfBin_keepsTopBit(a, topBinIndex, leafBinIndex, size) ==
  LET binIndex == ShiftLeft(topBinIndex, TOP_BINS_INDEX_SHIFT) + leafBinIndex
      nodeIndex == a.m_binIndices[binIndex]
      node == a.m_nodes[nodeIndex]
  IN  InSequence([a1 \in {[a EXCEPT !.m_nodes[nodeIndex].dataSize = size,
                                    !.m_nodes[nodeIndex].used = TRUE,
                                    !.m_binIndices[binIndex] = node.binListNext,
                                    !.m_freeStorage = @ - node.dataSize]} |->
          InSequence([a2 \in {IF node.binListNext # unused
                              THEN [a1 EXCEPT !.m_nodes[node.binListNext].binListPrev = unused]
                              ELSE a1} |->
              IF a2.m_binIndices[binIndex] # unused THEN a2
              ELSE [a2 EXCEPT !.m_usedBins[topBinIndex] = ClearBit(@, leafBinIndex)]])])

\* Allocator::allocate(size), the pop of the top node of the bin.
popTopOfBin(a, topBinIndex, leafBinIndex, size) ==
  LET binIndex == ShiftLeft(topBinIndex, TOP_BINS_INDEX_SHIFT) + leafBinIndex
      nodeIndex == a.m_binIndices[binIndex]
      node == a.m_nodes[nodeIndex]
  IN  InSequence([a1 \in {[a EXCEPT !.m_nodes[nodeIndex].dataSize = size,
                                    !.m_nodes[nodeIndex].used = TRUE,
                                    !.m_binIndices[binIndex] = node.binListNext,
                                    !.m_freeStorage = @ - node.dataSize]} |->
          InSequence([a2 \in {IF node.binListNext # unused
                              THEN [a1 EXCEPT !.m_nodes[node.binListNext].binListPrev = unused]
                              ELSE a1} |->
              \* bin empty?  remove a leaf bin mask bit
              IF a2.m_binIndices[binIndex] # unused THEN a2
              ELSE
                InSequence([a3 \in {[a2 EXCEPT !.m_usedBins[topBinIndex] = ClearBit(@, leafBinIndex)]} |->
                    \* all leaf bins empty?  remove a top bin mask bit
                    IF a3.m_usedBins[topBinIndex] = 0
                    THEN [a3 EXCEPT !.m_usedBinsTop = ClearBit(@, topBinIndex)]
                    ELSE a3])])])

\* Mutant of pushBackReminder: the remainder is put at the offset of the node
\* it was cut from.
pushBackReminder_sameOffset(a, nodeIndex, size, reminderSize, garbage) ==
  InSequence([ins \in {insertNodeIntoBin(a, reminderSize, a.m_nodes[nodeIndex].dataOffset, garbage)} |->
      LET newNodeIndex == ins.nodeIndex
          oldNext == ins.a.m_nodes[nodeIndex].neighborNext
      IN  IF ins.a.fault = "crash" THEN ins.a
          ELSE
            InSequence([b1 \in {IF oldNext # unused
                                THEN [ins.a EXCEPT !.m_nodes[oldNext].neighborPrev = newNodeIndex]
                                ELSE ins.a} |->
                [b1 EXCEPT !.m_nodes[newNodeIndex].neighborPrev = nodeIndex,
                           !.m_nodes[newNodeIndex].neighborNext = oldNext,
                           !.m_nodes[nodeIndex].neighborNext = newNodeIndex]])])

\* Allocator::allocate(size), the push back of the remainder of node
\* nodeIndex, reminderSize # 0, to a lower bin.
pushBackReminder(a, nodeIndex, size, reminderSize, garbage) ==
  InSequence([ins \in {insertNodeIntoBin(a, reminderSize, a.m_nodes[nodeIndex].dataOffset + size, garbage)} |->
      LET newNodeIndex == ins.nodeIndex
          oldNext == ins.a.m_nodes[nodeIndex].neighborNext
      IN  IF ins.a.fault = "crash" THEN ins.a
          ELSE
            \* link nodes next to each other
            InSequence([b1 \in {IF oldNext # unused
                                THEN [ins.a EXCEPT !.m_nodes[oldNext].neighborPrev = newNodeIndex]
                                ELSE ins.a} |->
                [b1 EXCEPT !.m_nodes[newNodeIndex].neighborPrev = nodeIndex,
                           !.m_nodes[newNodeIndex].neighborNext = oldNext,
                           !.m_nodes[nodeIndex].neighborNext = newNodeIndex]])])

\* Mutant of takeNode: a remainder is pushed back even when its size is 0.
takeNode_alwaysPushesBack(a, topBinIndex, leafBinIndex, size, garbage) ==
  LET binIndex == ShiftLeft(topBinIndex, TOP_BINS_INDEX_SHIFT) + leafBinIndex
      nodeIndex == a.m_binIndices[binIndex]
      reminderSize == a.m_nodes[nodeIndex].dataSize - size
  IN  InSequence([popped \in {popTopOfBin(a, topBinIndex, leafBinIndex, size)} |->
          InSequence([final \in {pushBackReminder(popped, nodeIndex, size, reminderSize, garbage)} |->
              [a |-> final, offset |-> final.m_nodes[nodeIndex].dataOffset,
               metadata |-> nodeIndex]])])

\* Allocator::allocate(size), after the search: the top node of the bin is
\* popped and its remainder pushed back.  Returns the allocator and the
\* Allocation.
takeNode(a, topBinIndex, leafBinIndex, size, garbage) ==
  LET binIndex == ShiftLeft(topBinIndex, TOP_BINS_INDEX_SHIFT) + leafBinIndex
      nodeIndex == a.m_binIndices[binIndex]
      reminderSize == a.m_nodes[nodeIndex].dataSize - size
  IN  InSequence([popped \in {popTopOfBin(a, topBinIndex, leafBinIndex, size)} |->
          InSequence([final \in {IF reminderSize # 0
                                 THEN pushBackReminder(popped, nodeIndex, size, reminderSize, garbage)
                                 ELSE popped} |->
              [a |-> final, offset |-> final.m_nodes[nodeIndex].dataOffset,
               metadata |-> nodeIndex]])])

\* Mutant of allocate: m_freeStorage is charged before the out-of-space checks.
allocate_chargesBeforeCheck(a, size, garbage) ==
  InSequence([bin \in {findBin(a, size)} |->
      IF bin.topBinIndex = NO_SPACE \/ bin.leafBinIndex = NO_SPACE
      THEN [a |-> [a EXCEPT !.m_freeStorage = @ - size],
            offset |-> NO_SPACE, metadata |-> NO_SPACE]
      ELSE takeNode(a, bin.topBinIndex, bin.leafBinIndex, size, garbage)])

\* Allocator::allocate(size).  Returns the allocator and the Allocation.
allocate(a, size, garbage) ==
  InSequence([bin \in {findBin(a, size)} |->
      IF bin.topBinIndex = NO_SPACE
      THEN [a |-> a, offset |-> NO_SPACE, metadata |-> NO_SPACE]
      ELSE IF bin.leafBinIndex = NO_SPACE
      THEN [a |-> a, offset |-> NO_SPACE, metadata |-> NO_SPACE]
      ELSE takeNode(a, bin.topBinIndex, bin.leafBinIndex, size, garbage)])

\* Mutant of isFreeNeighbor: no neighbor is ever merged.
isFreeNeighbor_never(a, neighbor) == FALSE

\* Mutant of isFreeNeighbor: the used flag of the neighbor is not looked at.
isFreeNeighbor_anyNeighbor(a, neighbor) == neighbor # unused

\* Allocator::free, the test made of each neighbor: there is one and it is free.
isFreeNeighbor(a, neighbor) == neighbor # unused /\ a.m_nodes[neighbor].used = FALSE

\* Allocator::free, the merge with the previous neighbor where that is free.
\* Returns the allocator and the offset and size of the merged region.
mergePrev(a, nodeIndex) ==
  LET node == a.m_nodes[nodeIndex]
      prevNode == a.m_nodes[node.neighborPrev]
  IN  IF isFreeNeighbor(a, node.neighborPrev)
      THEN [a |-> [removeNodeFromBin(a, node.neighborPrev)
                     EXCEPT !.m_nodes[nodeIndex].neighborPrev = prevNode.neighborPrev],
            offset |-> prevNode.dataOffset,
            size |-> node.dataSize + prevNode.dataSize]
      ELSE [a |-> a, offset |-> node.dataOffset, size |-> node.dataSize]

\* Mutant of mergeNext: the next neighbor is never merged.
mergeNext_never(a, nodeIndex, size) == [a |-> a, size |-> size]

\* Allocator::free, the merge with the next neighbor where that is free.
\* Returns the allocator and the size of the merged region.
mergeNext(a, nodeIndex, size) ==
  LET node == a.m_nodes[nodeIndex]
      nextNode == a.m_nodes[node.neighborNext]
  IN  IF isFreeNeighbor(a, node.neighborNext)
      THEN [a |-> [removeNodeFromBin(a, node.neighborNext)
                     EXCEPT !.m_nodes[nodeIndex].neighborNext = nextNode.neighborNext],
            size |-> size + nextNode.dataSize]
      ELSE [a |-> a, size |-> size]

\* Mutant of insertCombined: the node goes to the freelist and the region is
\* not put back into a bin.
insertCombined_noInsert(a, nodeIndex, size, offset) == pushFreeNode(a, nodeIndex)

\* Mutant of insertCombined: the previous neighbor is not connected with the
\* combined node.
insertCombined_noPrevLink(a, nodeIndex, size, offset) ==
  LET neighborNext == a.m_nodes[nodeIndex].neighborNext
  IN  InSequence([a3 \in {pushFreeNode(a, nodeIndex)} |->
          InSequence([ins \in {insertNodeIntoBin(a3, size, offset, unused)} |->
              LET combinedNodeIndex == ins.nodeIndex
              IN  IF ins.a.fault = "crash" THEN ins.a
                  ELSE IF neighborNext # unused
                  THEN [ins.a EXCEPT
                          !.m_nodes[combinedNodeIndex].neighborNext = neighborNext,
                          !.m_nodes[neighborNext].neighborPrev = combinedNodeIndex]
                  ELSE ins.a])])

\* Allocator::free, the end: the removed node goes to the freelist, the
\* combined node to its bin, and the neighbors are connected with it.
insertCombined(a, nodeIndex, size, offset) ==
  LET neighborNext == a.m_nodes[nodeIndex].neighborNext
      neighborPrev == a.m_nodes[nodeIndex].neighborPrev
  IN  InSequence([a3 \in {pushFreeNode(a, nodeIndex)} |->
          InSequence([ins \in {insertNodeIntoBin(a3, size, offset, unused)} |->
              LET combinedNodeIndex == ins.nodeIndex
              IN  IF ins.a.fault = "crash" THEN ins.a
                  ELSE
                    InSequence([b1 \in {IF neighborNext # unused
                                        THEN [ins.a EXCEPT
                                                !.m_nodes[combinedNodeIndex].neighborNext = neighborNext,
                                                !.m_nodes[neighborNext].neighborPrev = combinedNodeIndex]
                                        ELSE ins.a} |->
                        IF neighborPrev # unused
                        THEN [b1 EXCEPT
                                !.m_nodes[combinedNodeIndex].neighborPrev = neighborPrev,
                                !.m_nodes[neighborPrev].neighborNext = combinedNodeIndex]
                        ELSE b1])])])

\* Allocator::free(allocation); metadata is allocation.metadata.
free(a, metadata) ==
  InSequence([p \in {mergePrev(a, metadata)} |->
      InSequence([n \in {mergeNext(p.a, metadata, p.size)} |-> insertCombined(n.a, metadata, n.size, p.offset)])])

\* Mutant of storageReport: the lowest set bits are taken, not the highest.
storageReport_lowestBin(a) ==
  IF a.m_usedBinsTop = 0
  THEN {[totalFreeSpace |-> a.m_freeStorage, largestFreeRegion |-> 0]}
  ELSE LET topBinIndex == builtin_ctz(a.m_usedBinsTop)
           leafBinIndex == IF a.m_usedBins[topBinIndex] = 0 THEN 0
                           ELSE builtin_ctz(a.m_usedBins[topBinIndex])
       IN  {[totalFreeSpace |-> a.m_freeStorage,
             largestFreeRegion |->
               floatToUint(ShiftLeft(topBinIndex, TOP_BINS_INDEX_SHIFT) + leafBinIndex)]}

\* Mutant of storageReport: the size reported is that of the bin above the
\* highest occupied one.
storageReport_binAbove(a) ==
  IF a.m_usedBinsTop = 0
  THEN {[totalFreeSpace |-> a.m_freeStorage, largestFreeRegion |-> 0]}
  ELSE LET topBinIndex == 31 - builtin_clz(a.m_usedBinsTop)
           leaves == IF a.m_usedBins[topBinIndex] = 0
                     THEN 0..(BINS_PER_LEAF - 1)
                     ELSE {31 - builtin_clz(a.m_usedBins[topBinIndex])}
       IN  {[totalFreeSpace |-> a.m_freeStorage,
             largestFreeRegion |->
               floatToUint(ShiftLeft(topBinIndex, TOP_BINS_INDEX_SHIFT) + leafBinIndex + 1)]
            : leafBinIndex \in leaves}

\* Allocator::storageReport(): the reports the call can return.  __builtin_clz
\* of a zero leaf word is undefined: any leaf index may come out.
storageReport(a) ==
  IF a.m_usedBinsTop = 0
  THEN {[totalFreeSpace |-> a.m_freeStorage, largestFreeRegion |-> 0]}
  ELSE LET topBinIndex == 31 - builtin_clz(a.m_usedBinsTop)
           leaves == IF a.m_usedBins[topBinIndex] = 0
                     THEN 0..(BINS_PER_LEAF - 1)
                     ELSE {31 - builtin_clz(a.m_usedBins[topBinIndex])}
       IN  {[totalFreeSpace |-> a.m_freeStorage,
             largestFreeRegion |->
               floatToUint(ShiftLeft(topBinIndex, TOP_BINS_INDEX_SHIFT) + leafBinIndex)]
            : leafBinIndex \in leaves}

\* ---------------------------------------------------------------- actions
\* The capacities an allocator is constructed with, the sizes a caller asks
\* for, and the pool that never runs out while at most MaxLive allocations are
\* held.
Capacities == (MaxSize - 1)..MaxSize
RequestSizes == (0..MaxReq) \cup {m_size - 3, m_size, m_size + 1}
AmplePool == 2 * MaxLive + 1

\* What the out-of-bounds read of the slot stack can yield in this state.
Garbage ==
  IF InRange(m_freeOffset, maxAllocs) THEN {unused} ELSE (0..(maxAllocs - 1)) \cup {unused}

\* The threads that call allocate without a lock around the allocator.
Threads == 1..2
\* A thread that has not called: the locals of Allocator::allocate, the
\* Allocation it returns, and whether it made its call alone (no other call
\* was under way when it began).
Idle ==
  [pc |-> "idle", size |-> 0, topBinIndex |-> NO_SPACE, leafBinIndex |-> NO_SPACE,
   nodeIndex |-> unused, nodeTotalSize |-> 0, freeStorage |-> 0,
   offset |-> NO_SPACE, metadata |-> NO_SPACE, alone |-> TRUE]
NoCalls == [t \in Threads |-> Idle]

\* The state after construction.
Constructed(size, maxAllocs_) ==
  \E a \in {Allocator(size, maxAllocs_)} :
    /\ m_size = a.m_size
    /\ maxAllocs = a.maxAllocs
    /\ m_freeStorage = a.m_freeStorage
    /\ m_usedBinsTop = a.m_usedBinsTop
    /\ m_usedBins = a.m_usedBins
    /\ m_binIndices = a.m_binIndices
    /\ m_nodes = a.m_nodes
    /\ m_freeNodes = a.m_freeNodes
    /\ m_freeOffset = a.m_freeOffset
    /\ fault = a.fault
    /\ live = {}
    /\ calls = 0
    /\ last = [op |-> "Allocator", size |-> size]
    /\ before = [op |-> "none"]
    /\ frees = 0
    /\ threads = NoCalls

\* The allocator becomes a.
Becomes(a) ==
  /\ m_size' = a.m_size
  /\ maxAllocs' = a.maxAllocs
  /\ m_freeStorage' = a.m_freeStorage
  /\ m_usedBinsTop' = a.m_usedBinsTop
  /\ m_usedBins' = a.m_usedBins
  /\ m_binIndices' = a.m_binIndices
  /\ m_nodes' = a.m_nodes
  /\ m_freeNodes' = a.m_freeNodes
  /\ m_freeOffset' = a.m_freeOffset
  /\ fault' = a.fault

Init == \E size \in Capacities : Constructed(size, AmplePool)

InitPool == \E size \in Capacities : \E maxAllocs_ \in 1..MaxPool : Constructed(size, maxAllocs_)

\* The caller allocates; a handle that is not the sentinel is kept.
Allocate ==
  /\ fault = "none"
  /\ Cardinality(live) < MaxLive
  /\ calls < MaxCalls
  /\ calls' = calls + 1
  /\ \E size \in RequestSizes : \E garbage \in Garbage :
       \E this \in {self} : \E r \in {allocate(this, size, garbage)} :
         /\ Becomes(r.a)
         /\ last' = [op |-> "allocate", size |-> size, offset |-> r.offset,
                     metadata |-> r.metadata]
         /\ before' = last
         /\ UNCHANGED <<frees, threads>>
         /\ live' = IF r.offset = NO_SPACE \/ r.a.fault = "crash"
                    THEN live
                    ELSE live \cup {[offset |-> r.offset, metadata |-> r.metadata,
                                     size |-> size]}

\* The caller frees a handle it holds.  The call is recorded with whether the
\* region was isolated: each physical neighbor absent or in use.
Free ==
  /\ fault = "none"
  /\ \E h \in live : \E this \in {self} : \E a \in {free(this, h.metadata)} :
       /\ Becomes(a)
       /\ last' = [op |-> "free", size |-> h.size, offset |-> h.offset,
                   metadata |-> h.metadata,
                   isolated |->
                     /\ ~isFreeNeighbor(this, m_nodes[h.metadata].neighborPrev)
                     /\ ~isFreeNeighbor(this, m_nodes[h.metadata].neighborNext)]
       /\ live' = live \ {h}
  /\ before' = last
  /\ frees' = frees + 1
  /\ UNCHANGED <<calls, threads>>

\* The caller frees once more the handle it has just freed.  Allocator::free
\* checks only that metadata is not NO_SPACE, so the call runs as any other.
FreeAgain ==
  /\ fault = "none"
  /\ last.op = "free"
  /\ \E this \in {self} : \E a \in {free(this, last.metadata)} : Becomes(a)
  /\ last' = [op |-> "free again", size |-> last.size, offset |-> last.offset,
              metadata |-> last.metadata]
  /\ before' = last
  /\ frees' = frees + 1
  /\ UNCHANGED <<live, calls, threads>>

\* storageReport() is const: it changes no state and is asked of any state.
Next == Allocate \/ Free

Spec == Init /\ [][Next]_vars

SpecPool == InitPool /\ [][Next]_vars

\* The allocator over capacities near the top of uint32: 0xF0000000, the
\* largest size uintToFloatRoundUp keeps within the bins a node can be in,
\* and 0xFFFFFFFF (a uint32 from 2^31 on is the negative number 2^32 less).
LargeCapacities == {0 - 2 ^ 28, 0 - 1}

InitLarge == \E size \in LargeCapacities : Constructed(size, AmplePool)

SpecLarge == InitLarge /\ [][Next]_vars

\* The caller that misuses free.
NextMisuse == Allocate \/ Free \/ FreeAgain

SpecMisuse == Init /\ [][NextMisuse]_vars

\* ---------------------------------------------------- SmallFloat alone
\* The bin indices whose decoded size fits in 32 bits, and the sizes the
\* encoders are given: the small ones, and the smallest size of every such
\* bin with the sizes next to it, up to the smallest size of the last bin.
DecodableBins == {b \in 0..(NUM_LEAF_BINS - 1) : ShiftRight(b, MANTISSA_BITS) + MANTISSA_BITS <= 32}
LastDecodableBin == CHOOSE b \in DecodableBins : \A c \in DecodableBins : c <= b
\* The sizes below preciseNumberCount are encoded exactly; testData are the
\* sizes the repository's test encodes, with the bin indices it requires.
preciseNumberCount == 17
testData ==
  {[number |-> 17, up |-> 17, down |-> 16],
   [number |-> 118, up |-> 39, down |-> 38],
   [number |-> 1024, up |-> 64, down |-> 64],
   [number |-> 65536, up |-> 112, down |-> 112],
   [number |-> 529445, up |-> 137, down |-> 136],
   [number |-> 1048575, up |-> 144, down |-> 143]}
FloatSizes ==
  (0..MaxFloatSize)
    \cup {v.number : v \in testData}
    \cup {floatToUint(b) : b \in DecodableBins}
    \cup {floatToUint(b) + 1 : b \in DecodableBins \ {LastDecodableBin}}
    \cup {Pred(floatToUint(b)) : b \in DecodableBins \ {0}}

\* The allocator is left alone and the input of the functions is drawn.
InputDrawn(input) ==
  \E a \in {Allocator(MaxSize, AmplePool)} :
    /\ m_size = a.m_size
    /\ maxAllocs = a.maxAllocs
    /\ m_freeStorage = a.m_freeStorage
    /\ m_usedBinsTop = a.m_usedBinsTop
    /\ m_usedBins = a.m_usedBins
    /\ m_binIndices = a.m_binIndices
    /\ m_nodes = a.m_nodes
    /\ m_freeNodes = a.m_freeNodes
    /\ m_freeOffset = a.m_freeOffset
    /\ fault = a.fault
    /\ live = {}
    /\ calls = 0
    /\ last = input
    /\ before = [op |-> "none"]
    /\ frees = 0
    /\ threads = NoCalls

InitFloat ==
  \/ \E size \in FloatSizes : InputDrawn([op |-> "size", size |-> size])
  \/ \E bin \in DecodableBins : InputDrawn([op |-> "bin", bin |-> bin])

\* floatToUint is applied to the bin index drawn.
Decode ==
  /\ last.op = "bin"
  /\ last' = [op |-> "floatToUint", bin |-> last.bin, size |-> floatToUint(last.bin)]
  /\ before' = last
  /\ UNCHANGED <<allocatorVars, fault, live, calls, frees, threads>>

\* uintToFloatRoundUp and uintToFloatRoundDown are applied to the size drawn,
\* or to the size floatToUint returned.
Encode ==
  /\ last.op \in {"size", "floatToUint"}
  /\ last' = [op |-> "uintToFloat", size |-> last.size,
              roundUp |-> uintToFloatRoundUp(last.size),
              roundDown |-> uintToFloatRoundDown(last.size)]
  /\ before' = last
  /\ UNCHANGED <<allocatorVars, fault, live, calls, frees, threads>>

\* floatToUint is applied to the two bin indices the encoders returned.
DecodeBack ==
  /\ last.op = "uintToFloat"
  /\ last' = [op |-> "decoded", size |-> last.size,
              roundUp |-> last.roundUp, roundDown |-> last.roundDown,
              sizeUp |-> floatToUint(last.roundUp),
              sizeDown |-> floatToUint(last.roundDown)]
  /\ before' = last
  /\ UNCHANGED <<allocatorVars, fault, live, calls, frees, threads>>

NextFloat == Decode \/ Encode \/ DecodeBack

SpecFloat == InitFloat /\ [][NextFloat]_vars

\* ------------------------------------------------------ derived notions
\* The slots on the slot stack, and the slots of live nodes.
OnStack == {m_freeNodes[i] : i \in 0..m_freeOffset}
LiveSlots == (0..(maxAllocs - 1)) \ OnStack
FreeSlots == {s \in LiveSlots : ~m_nodes[s].used}
\* The bins whose list is not empty.
OccupiedBins == {b \in 0..(NUM_LEAF_BINS - 1) : m_binIndices[b] # unused}

\* The slots met from slot s along neighborNext, at most fuel of them.
RECURSIVE NeighborChain(_, _)
NeighborChain(s, fuel) ==
  IF s = unused \/ fuel = 0 THEN <<>>
  ELSE <<s>> \o NeighborChain(m_nodes[s].neighborNext, fuel - 1)
\* The slots met from slot s along binListNext, at most fuel of them.
RECURSIVE BinChain(_, _)
BinChain(s, fuel) ==
  IF s = unused \/ fuel = 0 THEN <<>>
  ELSE <<s>> \o BinChain(m_nodes[s].binListNext, fuel - 1)
\* (x >> i) & 1 for a uint32 x and i in 0..31 (a negative x is the uint32
\* 2^32 + x, whose bit 31 is set).
BitOfWord(x, i) ==
  IF i = 31 THEN (IF x < 0 THEN 1 ELSE 0)
  ELSE Bit(IF x < 0 THEN x + 2147483647 + 1 ELSE x, i)
\* The node met last from slot s along neighborPrev, within fuel steps.
RECURSIVE FirstNeighbor(_, _)
FirstNeighbor(s, fuel) ==
  IF fuel = 0 \/ m_nodes[s].neighborPrev = unused THEN s
  ELSE FirstNeighbor(m_nodes[s].neighborPrev, fuel - 1)
\* The slots the allocator or its caller refers to: the handles held and the
\* nodes of the bin lists.
Referenced ==
  {h.metadata : h \in live}
    \cup UNION {{BinChain(m_binIndices[b], maxAllocs + 1)[i] :
                   i \in 1..Len(BinChain(m_binIndices[b], maxAllocs + 1))} : b \in OccupiedBins}
\* The neighbor lists the referenced slots are in, each from its first node.
NeighborLists ==
  {NeighborChain(FirstNeighbor(r, maxAllocs + 1), maxAllocs + 1) : r \in Referenced}
\* The slots in the neighbor list.
InNeighborList == UNION {{chain[i] : i \in 1..Len(chain)} : chain \in NeighborLists}
\* The live nodes without a previous neighbor.
FirstNodes == {s \in LiveSlots : m_nodes[s].neighborPrev = unused}

\* The lowest bin whose list is not empty, where there is one.
LowestOccupiedBin == CHOOSE b \in OccupiedBins : \A c \in OccupiedBins : b <= c
\* A step is a call of allocate exactly when it counts one.
AllocateStep == calls' = calls + 1
\* The sum of the requested sizes of the handles in hs.
RECURSIVE SumSizes(_)
SumSizes(hs) ==
  IF hs = {} THEN 0
  ELSE LET h == CHOOSE x \in hs : TRUE IN h.size + SumSizes(hs \ {h})
\* The sum of dataSize over the nodes in the slots.
RECURSIVE SumDataSizes(_)
SumDataSizes(slots) ==
  IF slots = {} THEN 0
  ELSE LET s == CHOOSE x \in slots : TRUE
       IN  m_nodes[s].dataSize + SumDataSizes(slots \ {s})
\* The dataSize of the neighbor if free() would merge it, else 0.
MergedSize(neighbor) ==
  IF isFreeNeighbor(self, neighbor) THEN m_nodes[neighbor].dataSize ELSE 0
\* The occupied bins whose every node fits size.
FittingBins(size) == {b \in OccupiedBins : b >= uintToFloatRoundUp(size)}
\* minBinIndex >> TOP_BINS_INDEX_SHIFT of allocate(size)
MinTopBinIndex(size) == ShiftRight(uintToFloatRoundUp(size), TOP_BINS_INDEX_SHIFT)
\* What the allocator a holds, without the dead storage: the nodes off the
\* freelist stack each in its slot, the bin heads and mask bits, the free
\* storage, and the stack at positions 0..m_freeOffset with its cursor.
Holds(a) ==
  LET onStack == {a.m_freeNodes[i] : i \in 0..a.m_freeOffset}
  IN  [m_size |-> a.m_size,
       m_nodes |-> [s \in (0..(a.maxAllocs - 1)) \ onStack |-> a.m_nodes[s]],
       m_binIndices |-> a.m_binIndices,
       m_usedBins |-> a.m_usedBins,
       m_usedBinsTop |-> a.m_usedBinsTop,
       m_freeStorage |-> a.m_freeStorage,
       m_freeNodes |-> [i \in 0..a.m_freeOffset |-> a.m_freeNodes[i]],
       m_freeOffset |-> a.m_freeOffset]
\* N is the smallest size of its bin.
ExactBinSize(n) == floatToUint(uintToFloatRoundDown(n)) = n
\* The node allocate(size) would take in this state, unused if none.
Selected(size) ==
  LET bin == findBin(self, size)
  IN  IF bin.topBinIndex = NO_SPACE \/ bin.leafBinIndex = NO_SPACE THEN unused
      ELSE m_binIndices[ShiftLeft(bin.topBinIndex, TOP_BINS_INDEX_SHIFT) + bin.leafBinIndex]

\* ------------------------------------- allocate without serialization
\* Two threads call allocate on one allocator with no lock.  Each statement
\* of lines 146-181 is a step of its own, and m_freeStorage -= nodeTotalSize
\* is a load and a store; the emptying of the mask bits (lines 186-198) and
\* the push back of the remainder (lines 200-212) are one step each.  The
\* accesses are not atomic and not ordered, a data race: the steps below are
\* the outcomes in which every access reads the value last written.  An
\* access to m_nodes[Node::unused] is outside the array: the process ends
\* ("crash") or goes on with memory the model has not got ("oob"), and no
\* thread is followed further.
RaceSizes == (0..MaxReq) \cup {m_size}

\* The caller's thread t is at pc, and no access has gone out of bounds.
At(t, pc) == fault = "none" /\ threads[t].pc = pc
\* Thread t goes on with the locals c; the caller's records are not used.
Goes(t, c) ==
  /\ threads' = [threads EXCEPT ![t] = c]
  /\ UNCHANGED <<live, calls, last, before, frees>>
\* binIndex of the thread with the locals c
BinIndexOf(c) == ShiftLeft(c.topBinIndex, TOP_BINS_INDEX_SHIFT) + c.leafBinIndex
\* return {NO_SPACE, NO_SPACE}
OutOfSpace(c) == [c EXCEPT !.pc = "done", !.offset = NO_SPACE, !.metadata = NO_SPACE]

\* Thread t calls allocate(size).
Call(t) ==
  /\ At(t, "idle")
  /\ \E size \in RaceSizes :
       Goes(t, [threads[t] EXCEPT
                  !.pc = "scan top", !.size = size,
                  !.alone = \A u \in Threads \ {t} : threads[u].pc \in {"idle", "done"}])
  /\ UNCHANGED <<allocatorVars, fault>>

\* topBinIndex = findLowestSetBitAfter(m_usedBinsTop, minTopBinIndex)
ScanTop(t) ==
  /\ At(t, "scan top")
  /\ \E topBinIndex \in {findLowestSetBitAfter(m_usedBinsTop,
                           ShiftRight(uintToFloatRoundUp(threads[t].size), TOP_BINS_INDEX_SHIFT))} :
       Goes(t, IF topBinIndex = NO_SPACE THEN OutOfSpace(threads[t])
               ELSE [threads[t] EXCEPT !.pc = "scan leaf", !.topBinIndex = topBinIndex])
  /\ UNCHANGED <<allocatorVars, fault>>

\* leafBinIndex = findLowestSetBitAfter(m_usedBins[topBinIndex], minLeafBinIndex)
ScanLeaf(t) ==
  /\ At(t, "scan leaf")
  /\ LET c == threads[t]
         minBinIndex == uintToFloatRoundUp(c.size)
         minLeafBinIndex ==
           IF ShiftRight(minBinIndex, TOP_BINS_INDEX_SHIFT) # c.topBinIndex THEN 0
           ELSE AndLowMask(minBinIndex, LEAF_BINS_INDEX_MASK)
     IN  \E leafBinIndex \in {findLowestSetBitAfter(m_usedBins[c.topBinIndex], minLeafBinIndex)} :
           Goes(t, IF leafBinIndex = NO_SPACE THEN OutOfSpace(c)
                   ELSE [c EXCEPT !.pc = "read head", !.leafBinIndex = leafBinIndex])
  /\ UNCHANGED <<allocatorVars, fault>>

\* nodeIndex = m_binIndices[binIndex]
ReadHead(t) ==
  /\ At(t, "read head")
  /\ Goes(t, [threads[t] EXCEPT !.pc = "read size",
                                !.nodeIndex = m_binIndices[BinIndexOf(threads[t])]])
  /\ UNCHANGED <<allocatorVars, fault>>

\* nodeTotalSize = node.dataSize
ReadSize(t) ==
  /\ At(t, "read size")
  /\ threads[t].nodeIndex # unused
  /\ Goes(t, [threads[t] EXCEPT !.pc = "write size",
                                !.nodeTotalSize = m_nodes[threads[t].nodeIndex].dataSize])
  /\ UNCHANGED <<allocatorVars, fault>>

\* nodeTotalSize = node.dataSize where the bin was emptied between the scan
\* and the read of its head: node is m_nodes[Node::unused].
ReadOutOfBounds(t) ==
  /\ At(t, "read size")
  /\ threads[t].nodeIndex = unused
  /\ \E outcome \in {"crash", "oob"} : fault' = outcome
  /\ Goes(t, threads[t])
  /\ UNCHANGED allocatorVars

\* node.dataSize = size
WriteSize(t) ==
  /\ At(t, "write size")
  /\ Becomes([self EXCEPT !.m_nodes[threads[t].nodeIndex].dataSize = threads[t].size])
  /\ Goes(t, [threads[t] EXCEPT !.pc = "write used"])

\* node.used = true
WriteUsed(t) ==
  /\ At(t, "write used")
  /\ Becomes([self EXCEPT !.m_nodes[threads[t].nodeIndex].used = TRUE])
  /\ Goes(t, [threads[t] EXCEPT !.pc = "pop head"])

\* Mutant of popBinHead: the head of the bin stays.
popBinHead_keepsHead(a, binIndex, nodeIndex) == a

\* m_binIndices[binIndex] = node.binListNext
popBinHead(a, binIndex, nodeIndex) ==
  [a EXCEPT !.m_binIndices[binIndex] = a.m_nodes[nodeIndex].binListNext]

PopHead(t) ==
  /\ At(t, "pop head")
  /\ Becomes(popBinHead(self, BinIndexOf(threads[t]), threads[t].nodeIndex))
  /\ Goes(t, [threads[t] EXCEPT !.pc = "unlink"])

\* if (node.binListNext != Node::unused) m_nodes[node.binListNext].binListPrev = Node::unused
Unlink(t) ==
  /\ At(t, "unlink")
  /\ LET binListNext == m_nodes[threads[t].nodeIndex].binListNext
     IN  Becomes(IF binListNext # unused
                 THEN [self EXCEPT !.m_nodes[binListNext].binListPrev = unused]
                 ELSE self)
  /\ Goes(t, [threads[t] EXCEPT !.pc = "load free storage"])

\* m_freeStorage -= nodeTotalSize, the load
LoadFreeStorage(t) ==
  /\ At(t, "load free storage")
  /\ Goes(t, [threads[t] EXCEPT !.pc = "store free storage", !.freeStorage = m_freeStorage])
  /\ UNCHANGED <<allocatorVars, fault>>

\* m_freeStorage -= nodeTotalSize, the store (a difference below 0 is the
\* uint32 2^32 more)
StoreFreeStorage(t) ==
  /\ At(t, "store free storage")
  /\ Becomes([self EXCEPT !.m_freeStorage = threads[t].freeStorage - threads[t].nodeTotalSize])
  /\ Goes(t, [threads[t] EXCEPT !.pc = "bin empty"])

\* Bin empty?  Remove a leaf bin mask bit, and a top bin mask bit if all leaf
\* bins are empty.
ClearMaskBits(t) ==
  /\ At(t, "bin empty")
  /\ LET c == threads[t]
     IN  Becomes(IF m_binIndices[BinIndexOf(c)] # unused THEN self
                 ELSE InSequence([a \in {[self EXCEPT !.m_usedBins[c.topBinIndex] =
                                                        ClearBit(@, c.leafBinIndex)]} |->
                          IF a.m_usedBins[c.topBinIndex] = 0
                          THEN [a EXCEPT !.m_usedBinsTop = ClearBit(@, c.topBinIndex)]
                          ELSE a]))
  /\ Goes(t, [threads[t] EXCEPT !.pc = "reminder"])

\* Push back reminder N elements to a lower bin
PushBack(t) ==
  /\ At(t, "reminder")
  /\ LET c == threads[t]
         reminderSize == c.nodeTotalSize - c.size
     IN  Becomes(IF reminderSize # 0
                 THEN pushBackReminder(self, c.nodeIndex, c.size, reminderSize, unused)
                 ELSE self)
  /\ Goes(t, [threads[t] EXCEPT !.pc = "return"])

\* return {.offset = node.dataOffset, .metadata = nodeIndex}
Return(t) ==
  /\ At(t, "return")
  /\ Goes(t, [threads[t] EXCEPT !.pc = "done",
                                !.offset = m_nodes[threads[t].nodeIndex].dataOffset,
                                !.metadata = threads[t].nodeIndex])
  /\ UNCHANGED <<allocatorVars, fault>>

NextRace ==
  \E t \in Threads :
    \/ Call(t)
    \/ ScanTop(t)
    \/ ScanLeaf(t)
    \/ ReadHead(t)
    \/ ReadSize(t)
    \/ ReadOutOfBounds(t)
    \/ WriteSize(t)
    \/ WriteUsed(t)
    \/ PopHead(t)
    \/ Unlink(t)
    \/ LoadFreeStorage(t)
    \/ StoreFreeStorage(t)
    \/ ClearMaskBits(t)
    \/ PushBack(t)
    \/ Return(t)

SpecRace == Init /\ [][NextRace]_vars

\* Thread t has returned from allocate with an allocation.
Returned(t) == threads[t].pc = "done" /\ threads[t].offset # NO_SPACE

\* ------------------------------------------------------------ the claims

\* C1: the ranges [offset, offset + size) of the allocations the caller holds
\* are pairwise disjoint and each lies inside [0, N), while the pool has not
\* run out.
C1_LiveRangesDisjoint ==
  fault = "none" =>
    /\ \A h \in live : 0 <= h.offset /\ h.offset + h.size <= m_size
    /\ \A h1, h2 \in live :
         h1 # h2 => h1.offset + h1.size <= h2.offset \/ h2.offset + h2.size <= h1.offset

\* C1 witness: an allocation has just been placed in a hole in front of
\* another live allocation, both of them of positive size.
C1_Witness ==
  /\ last.op = "allocate" /\ last.size > 0 /\ last.offset # NO_SPACE
  /\ \E h \in live : h.size > 0 /\ h.offset > last.offset
  /\ \E h \in live : h.metadata = last.metadata /\ h.offset = last.offset

\* C2: allocate(size), called in a state where some bin with index >=
\* uintToFloatRoundUp(size) holds a free node and the slot stack is not empty,
\* returns an offset that is not NO_SPACE.
C2_FittingBinIsFound ==
  [][(/\ AllocateStep
      /\ \E b \in OccupiedBins : b >= uintToFloatRoundUp(last'.size)
      /\ InRange(m_freeOffset, maxAllocs))
     => last'.offset # NO_SPACE]_vars

\* C3: allocate(size) that selects a free node larger than size while the
\* slot stack is empty returns {NO_SPACE, NO_SPACE} and does not index the
\* slot stack outside [0, maxAllocs).
C3_ExhaustedPoolReturnsNoSpace ==
  [][(/\ AllocateStep
      /\ ~InRange(m_freeOffset, maxAllocs)
      /\ Selected(last'.size) # unused
      /\ m_nodes[Selected(last'.size)].dataSize # last'.size)
     => /\ last'.offset = NO_SPACE
        /\ last'.metadata = NO_SPACE
        /\ fault' = "none"]_vars

\* C4: a call of allocate that returns NO_SPACE leaves the whole allocator as
\* it was.
C4_NoSpaceChangesNothing ==
  [][(AllocateStep /\ last'.offset = NO_SPACE)
     => UNCHANGED <<allocatorVars, fault, live>>]_vars

\* C4 witness: allocate has returned NO_SPACE while allocations were live.
C4_Witness ==
  last.op = "allocate" /\ last.offset = NO_SPACE /\ last.metadata = NO_SPACE /\ live # {}

C6_ReportWhenAllFree ==
  live = {} =>
    \A r \in storageReport(self) : r.totalFreeSpace = m_size /\ r.largestFreeRegion = m_size

\* C7: once every allocation has been freed there is exactly one live node:
\* free, at offset 0, of size N, without neighbors, alone in bin
\* uintToFloatRoundDown(N), and every other slot is on the slot stack.
C7_OneNodeWhenAllFree ==
  (fault = "none" /\ live = {}) =>
    /\ Cardinality(LiveSlots) = 1
    /\ m_freeOffset = maxAllocs - 2
    /\ Cardinality(OnStack) = maxAllocs - 1
    /\ OccupiedBins = {uintToFloatRoundDown(m_size)}
    /\ \A s \in LiveSlots :
         /\ m_nodes[s] = [Node EXCEPT !.dataSize = m_size]
         /\ m_binIndices[uintToFloatRoundDown(m_size)] = s

\* C7 witness: the last of three allocations has just been freed.
C7_Witness == last.op = "free" /\ live = {} /\ calls >= 3

\* C8: totalFreeSpace is N minus the sum of the requested sizes of the live
\* allocations.
C8_TotalFreeSpace ==
  fault = "none" =>
    \A r \in storageReport(self) : r.totalFreeSpace = m_size - SumSizes(live)

\* C8 witness: a free has merged regions while other allocations of positive
\* size stay live.
C8_Witness ==
  /\ last.op = "free" /\ last.size > 0
  /\ Cardinality(live) >= 2 /\ SumSizes(live) > 0
  /\ Cardinality(FreeSlots) = 1

\* C9 as claimed: largestFreeRegion is 0 when no bin is occupied, else the
\* smallest size of the highest occupied bin; in every state a free node at
\* least that big exists and largestFreeRegion <= totalFreeSpace.
C9_LargestFreeRegionAlways ==
  fault = "none" =>
    \A r \in storageReport(self) :
      /\ r.largestFreeRegion =
           (IF OccupiedBins = {} THEN 0
            ELSE floatToUint(CHOOSE b \in OccupiedBins : \A c \in OccupiedBins : c <= b))
      /\ \E s \in FreeSlots : m_nodes[s].dataSize >= r.largestFreeRegion
      /\ r.largestFreeRegion <= r.totalFreeSpace

\* C9 amended: the same, the free node at least that big existing in every
\* state where some bin is occupied.
C9_LargestFreeRegion ==
  fault = "none" =>
    \A r \in storageReport(self) :
      /\ r.largestFreeRegion =
           (IF OccupiedBins = {} THEN 0
            ELSE floatToUint(CHOOSE b \in OccupiedBins : \A c \in OccupiedBins : c <= b))
      /\ OccupiedBins # {} => \E s \in FreeSlots : m_nodes[s].dataSize >= r.largestFreeRegion
      /\ r.largestFreeRegion <= r.totalFreeSpace

\* C9 witness: bins of two top words are occupied, and the highest holds a
\* node bigger than the bin's smallest size.
C9_Witness ==
  /\ \E b, c \in OccupiedBins : b < MANTISSA_VALUE /\ b > 0 /\ c >= 2 * MANTISSA_VALUE
  /\ \A r \in storageReport(self) :
       \E s \in FreeSlots : m_nodes[s].dataSize > r.largestFreeRegion

\* C10: the node of every handle the caller holds is marked used and has the
\* handle's offset and the requested size.
C10_LiveNodeStable ==
  fault = "none" =>
    \A h \in live :
      /\ m_nodes[h.metadata].used
      /\ m_nodes[h.metadata].dataOffset = h.offset
      /\ m_nodes[h.metadata].dataSize = h.size

\* C10 witness: a handle is still held after its left neighbor was freed and
\* a later allocation was made.
C10_Witness ==
  /\ last.op = "allocate" /\ last.offset # NO_SPACE
  /\ \E h \in live :
       /\ h.metadata # last.metadata /\ h.size > 0
       /\ m_nodes[h.metadata].neighborPrev # unused
       /\ ~m_nodes[m_nodes[h.metadata].neighborPrev].used
       /\ m_nodes[m_nodes[h.metadata].neighborPrev].dataSize > 0

\* C11 as claimed: for a live allocation of any size s whose physical
\* neighbors are each absent or in use, free followed at once by allocate(s)
\* returns the offset the allocation had.
C11_AnySizeReallocated ==
  [][(AllocateStep /\ last.op = "free" /\ last.isolated /\ last'.size = last.size)
     => last'.offset = last.offset]_vars

\* C11 amended: the same for a size s that is the smallest size of its bin.
C11_ExactSizeReallocated ==
  [][(/\ AllocateStep /\ last.op = "free" /\ last.isolated /\ last'.size = last.size
      /\ ExactBinSize(last.size))
     => last'.offset = last.offset]_vars

\* C11 witness: an allocation of positive size between two live ones was
\* freed, and the allocate of the same size that followed got its offset.
C11_Witness ==
  /\ last.op = "allocate" /\ before.op = "free" /\ before.isolated
  /\ last.size = before.size /\ last.size > 0 /\ last.offset = before.offset
  /\ \E h \in live : h.offset < last.offset
  /\ \E h \in live : h.offset > last.offset

\* C12: after every completed allocate or free no two nodes adjacent in the
\* neighbor list are both free, so that freeing physically contiguous
\* allocations in any order leaves one free node covering all of them.
C12_NoAdjacentFreeNodes ==
  fault = "none" =>
    \A s \in FreeSlots :
      /\ m_nodes[s].neighborNext # unused => m_nodes[m_nodes[s].neighborNext].used
      /\ m_nodes[s].neighborPrev # unused => m_nodes[m_nodes[s].neighborPrev].used

\* C12 witness: the middle one of three contiguous allocations was freed
\* last, and one free node covers the three and the tail.
C12_Witness ==
  /\ last.op = "free" /\ before.op = "free" /\ frees = 3 /\ live = {}
  /\ last.size > 0 /\ before.size > 0
  /\ last.offset > 0 /\ before.offset > last.offset
  /\ \E s \in FreeSlots : m_nodes[s].dataOffset = 0 /\ m_nodes[s].dataSize = m_size

\* C13: from the freshly constructed allocator, in a run of allocate calls
\* with no free, every successful allocation is placed at the sum of the sizes
\* of the earlier successful allocations of the run.
C13_PackedBackToBack ==
  [][(AllocateStep /\ frees = 0 /\ last'.offset # NO_SPACE)
     => last'.offset = SumSizes(live)]_vars

\* C13 witness: the third successful allocation of a run without free was
\* placed behind two allocations of positive size.
C13_Witness ==
  /\ frees = 0 /\ last.op = "allocate" /\ Cardinality(live) = 3
  /\ \A h \in live : h.size > 0
  /\ \E h \in live :
       /\ h.metadata = last.metadata
       /\ last.offset = SumSizes(live \ {h})

\* C14: allocate(0), called in a state with a free node and an available
\* slot, returns a handle that is not the sentinel, whose offset is the
\* dataOffset of the head node of the lowest occupied bin; the node it marks
\* used has size 0 and m_freeStorage is unchanged.
C14_AllocateZero ==
  [][(/\ AllocateStep /\ last'.size = 0
      /\ OccupiedBins # {}
      /\ InRange(m_freeOffset, maxAllocs))
     => /\ last'.offset # NO_SPACE
        /\ last'.metadata # NO_SPACE
        /\ last'.metadata = m_binIndices[LowestOccupiedBin]
        /\ last'.offset = m_nodes[m_binIndices[LowestOccupiedBin]].dataOffset
        /\ m_nodes'[last'.metadata].used
        /\ m_nodes'[last'.metadata].dataSize = 0
        /\ m_freeStorage' = m_freeStorage]_vars

\* C14 witness: after a free, allocate(0) has taken the head of the lowest of
\* two occupied bins, a region of positive size in front of a live allocation.
C14_Witness ==
  /\ fault = "none"
  /\ last.op = "allocate" /\ last.size = 0 /\ last.offset # NO_SPACE
  /\ before.op = "free" /\ before.size > 0 /\ before.offset = last.offset
  /\ m_nodes[last.metadata].used /\ m_nodes[last.metadata].dataSize = 0
  /\ Cardinality(OccupiedBins) = 2
  /\ \E h \in live : h.size > 0 /\ h.offset > last.offset

\* C15 as claimed: a successful allocate(0) leaves the number of slots on the
\* slot stack and the neighbor links of every node that existed before the
\* call as they were.
C15_AllocateZeroDisturbsNothing ==
  [][(AllocateStep /\ last'.size = 0 /\ last'.offset # NO_SPACE)
     => /\ m_freeOffset' = m_freeOffset
        /\ \A s \in LiveSlots :
             /\ m_nodes'[s].neighborPrev = m_nodes[s].neighborPrev
             /\ m_nodes'[s].neighborNext = m_nodes[s].neighborNext]_vars

\* C15 amended: a successful allocate(0) that takes a free node of size 0
\* leaves the slot stack and the neighbor links of every node as they were;
\* one that takes a node of positive size pops one slot for the remainder,
\* which is the whole region, and links it behind the node taken.
C15_AllocateZeroOfEmptyNode ==
  [][(AllocateStep /\ last'.size = 0 /\ last'.offset # NO_SPACE)
     => IF m_nodes[Selected(0)].dataSize = 0
        THEN /\ m_freeOffset' = m_freeOffset
             /\ \A s \in LiveSlots :
                  /\ m_nodes'[s].neighborPrev = m_nodes[s].neighborPrev
                  /\ m_nodes'[s].neighborNext = m_nodes[s].neighborNext
        ELSE /\ m_freeOffset' = m_freeOffset - 1
             /\ m_nodes'[last'.metadata].neighborNext = m_freeNodes[m_freeOffset]
             /\ m_nodes'[m_freeNodes[m_freeOffset]].dataSize
                  = m_nodes[Selected(0)].dataSize]_vars

\* C15 witness: a free node of size 0 between two live allocations has been
\* taken by allocate(0).
C15_Witness ==
  /\ last.op = "allocate" /\ last.size = 0 /\ last.offset # NO_SPACE
  /\ before.op = "free" /\ before.size = 0 /\ before.isolated
  /\ last.metadata = before.metadata
  /\ m_nodes[last.metadata].neighborPrev # unused
  /\ m_nodes[last.metadata].neighborNext # unused
  /\ m_nodes[m_nodes[last.metadata].neighborNext].used

\* C16: a second free of a handle just freed is stopped by an assertion
\* before m_freeStorage, a bin list, the neighbor list or the slot stack is
\* modified.
C16_SecondFreeIsStopped ==
  [][last'.op = "free again" => UNCHANGED allocatorVars]_vars

\* C17: for every size s given, floatToUint(uintToFloatRoundUp(s)) >= s and
\* floatToUint(uintToFloatRoundDown(s)) <= s, and the two bin indices differ
\* by 0 or 1, by 0 exactly when s is the smallest size of its bin.
C17_RoundingBracketsSize ==
  last.op = "decoded" =>
    /\ AtMost(last.size, last.sizeUp)
    /\ AtMost(last.sizeDown, last.size)
    /\ last.roundUp - last.roundDown \in {0, 1}
    /\ last.roundUp = last.roundDown <=> last.sizeDown = last.size

\* C17 witness: a size at or above 2^31 that is not the smallest of its bin
\* was encoded both ways and the two bin indices decoded.
C17_Witness ==
  /\ last.op = "decoded" /\ last.size < 0
  /\ last.roundUp = last.roundDown + 1
  /\ last.sizeDown # last.size /\ last.sizeUp # last.size

\* C18: for every bin index b in 0..239, uintToFloatRoundUp(floatToUint(b))
\* = b and uintToFloatRoundDown(floatToUint(b)) = b.
C18_RoundTrip ==
  (last.op = "uintToFloat" /\ before.op = "floatToUint") =>
    /\ last.roundUp = before.bin
    /\ last.roundDown = before.bin

\* C18 witness: bin 239, the last whose size fits in 32 bits, was decoded to
\* 0xF0000000 and encoded back.
C18_Witness ==
  /\ last.op = "uintToFloat" /\ before.op = "floatToUint"
  /\ before.bin = LastDecodableBin /\ before.bin = 239
  /\ last.size = 0 - 2 ^ 28
  /\ last.roundUp = before.bin

\* C19: for every size s >= 1, 8 * (floatToUint(uintToFloatRoundUp(s)) - s)
\* <= s, and for every size s, 8 * (s - floatToUint(uintToFloatRoundDown(s)))
\* <= s; 8 * d <= s is written d <= s >> 3.
C19_OverheadAtMostEighth ==
  last.op = "decoded" =>
    /\ last.size # 0 =>
         Minus(last.sizeUp, last.size) <= ShiftRight(last.size, MANTISSA_BITS)
    /\ Minus(last.size, last.sizeDown) <= ShiftRight(last.size, MANTISSA_BITS)

\* C19 witness: a size above the small ones whose round-up overhead is one
\* less than the step of its bins and whose round-down overhead is 1.
C19_Witness ==
  /\ last.op = "decoded" /\ last.size > MaxFloatSize
  /\ Minus(last.size, last.sizeDown) = 1
  /\ Minus(last.sizeUp, last.size) > 1
  /\ Minus(last.sizeUp, last.sizeDown) = Minus(last.sizeUp, last.size) + 1

\* C20: uintToFloatRoundUp and uintToFloatRoundDown are non-decreasing: for
\* all sizes a <= b given, the bin index of a is at most that of b.
C20_Monotone ==
  last.op = "uintToFloat" =>
    \A a \in FloatSizes :
      AtMost(a, last.size) =>
        /\ uintToFloatRoundUp(a) <= last.roundUp
        /\ uintToFloatRoundDown(a) <= last.roundDown

\* C20 witness: a size drawn above the small ones was encoded, its round-up
\* carrying into the next exponent, and a smaller size given has the bin
\* index just below.
C20_Witness ==
  /\ last.op = "uintToFloat" /\ before.op = "size" /\ last.size > MaxFloatSize
  /\ AndLowMask(last.roundUp, MANTISSA_MASK) = 0 /\ last.roundUp = last.roundDown + 1
  /\ \E a \in FloatSizes :
       a >= 0 /\ a < last.size /\ uintToFloatRoundUp(a) = last.roundUp - 1

\* C21: every size in 0..16 is its own bin index under both encoders and its
\* own decoded size, and the encoders give the bin indices (round up, round
\* down) (17,16) for 17, (39,38) for 118, (64,64) for 1024, (112,112) for
\* 65536, (137,136) for 529445 and (144,143) for 1048575.
C21_PreciseAndTestedSizes ==
  /\ last.op = "uintToFloat" =>
       /\ last.size \in 0..(preciseNumberCount - 1) =>
            last.roundUp = last.size /\ last.roundDown = last.size
       /\ \A v \in testData :
            last.size = v.number => last.roundUp = v.up /\ last.roundDown = v.down
  /\ last.op = "floatToUint" =>
       (last.bin \in 0..(preciseNumberCount - 1) => last.size = last.bin)

\* C21 witness: 529445 was encoded to (137, 136).
C21_Witness ==
  /\ last.op = "uintToFloat" /\ before.op = "size" /\ last.size = 529445
  /\ last.roundUp = 137 /\ last.roundDown = 136

\* C22: after construction and after every allocate or free, the walk along
\* neighborNext from the node without neighborPrev visits every live node
\* exactly once; the first node is at offset 0, each node ends where the next
\* begins, the last ends at N, and neighborPrev is the inverse of
\* neighborNext.
C22_NeighborListCoversCapacity ==
  fault = "none" =>
    /\ Cardinality(FirstNodes) = 1
    /\ \A f \in FirstNodes : \A chain \in {NeighborChain(f, maxAllocs + 1)} :
         /\ Len(chain) = Cardinality(LiveSlots)
         /\ {chain[i] : i \in 1..Len(chain)} = LiveSlots
         /\ m_nodes[chain[1]].dataOffset = 0
         /\ \A i \in 1..(Len(chain) - 1) :
              /\ m_nodes[chain[i]].dataOffset + m_nodes[chain[i]].dataSize
                   = m_nodes[chain[i + 1]].dataOffset
              /\ m_nodes[chain[i + 1]].neighborPrev = chain[i]
         /\ m_nodes[chain[Len(chain)]].dataOffset + m_nodes[chain[Len(chain)]].dataSize
              = m_size

\* C22 witness: a free has left five nodes in the neighbor list, two of them
\* free and of positive size.
C22_Witness ==
  /\ last.op = "free" /\ Cardinality(LiveSlots) = 5
  /\ Cardinality({s \in FreeSlots : m_nodes[s].dataSize > 0}) = 2
  /\ \A f \in FirstNodes : Len(NeighborChain(f, maxAllocs + 1)) = 5

\* C23: after every operation, the list of each of the 256 bins, walked from
\* m_binIndices[bin] along binListNext, holds exactly the live free nodes
\* whose dataSize rounds down to that bin, each once; the first has no
\* binListPrev, every other node's binListPrev is the node before it, and no
\* used node is in any list.
C23_BinListsHoldFreeNodes ==
  fault = "none" =>
    \A bin \in 0..(NUM_LEAF_BINS - 1) :
      \A chain \in {BinChain(m_binIndices[bin], maxAllocs + 1)} :
        /\ Cardinality({chain[i] : i \in 1..Len(chain)}) = Len(chain)
        /\ {chain[i] : i \in 1..Len(chain)}
             = {s \in FreeSlots : uintToFloatRoundDown(m_nodes[s].dataSize) = bin}
        /\ \A i \in 1..Len(chain) :
             /\ m_nodes[chain[i]].binListPrev = (IF i = 1 THEN unused ELSE chain[i - 1])
             /\ ~m_nodes[chain[i]].used

\* C23 witness: a free has left a bin with two nodes in its list while a
\* second bin is occupied and two handles are held.
C23_Witness ==
  /\ last.op = "free" /\ fault = "none" /\ Cardinality(live) = 2
  /\ Cardinality(OccupiedBins) = 2
  /\ \E bin \in OccupiedBins : Len(BinChain(m_binIndices[bin], maxAllocs + 1)) = 2

\* C24: after every operation, bit t of m_usedBinsTop is set exactly when
\* m_usedBins[t] is not zero, and bit l of m_usedBins[t] is set exactly when
\* the list of bin t * 8 + l is not empty.
C24_MaskBitsMatchBinHeads ==
  fault = "none" =>
    \A t \in 0..(NUM_TOP_BINS - 1) :
      /\ (BitOfWord(m_usedBinsTop, t) = 1) <=> (m_usedBins[t] # 0)
      /\ \A l \in 0..(BINS_PER_LEAF - 1) :
           (Bit(m_usedBins[t], l) = 1) <=> (m_binIndices[t * BINS_PER_LEAF + l] # unused)

\* C24 witness: an allocate has emptied a bin of a leaf word in which another
\* bin stays occupied, so the leaf bit went and the top bit stayed.
C24_Witness ==
  /\ last.op = "allocate" /\ last.offset # NO_SPACE /\ fault = "none"
  /\ before.op = "free"
  /\ \E t \in 0..(NUM_TOP_BINS - 1) : \E l \in 0..(BINS_PER_LEAF - 1) :
       /\ Bit(m_usedBins[t], l) = 0 /\ m_usedBins[t] # 0
       /\ uintToFloatRoundDown(before.size) = t * BINS_PER_LEAF + l
       /\ before.offset = last.offset

\* C25, between operations: the slots on the freelist stack (positions
\* 0..m_freeOffset) and the slots in the neighbor list have nothing in
\* common, neither holds a slot twice, together they are 0..maxAllocs-1, and
\* no two handles held have the same metadata.
C25_SlotsPartitioned ==
  fault = "none" =>
    /\ Cardinality(OnStack) = m_freeOffset + 1
    /\ Cardinality(NeighborLists) = 1
    /\ \A chain \in NeighborLists :
         Cardinality({chain[i] : i \in 1..Len(chain)}) = Len(chain)
    /\ OnStack \cap InNeighborList = {}
    /\ OnStack \cup InNeighborList = 0..(maxAllocs - 1)
    /\ \A h1 \in live : \A h2 \in live : h1 # h2 => h1.metadata # h2.metadata

\* C25, an allocate that succeeds: its metadata is that of no handle held.
C25_FreshMetadata ==
  (AllocateStep /\ last'.offset # NO_SPACE /\ fault' = "none")
    => \A h \in live : h.metadata # last'.metadata

\* C25: with the calls made as they should be, after every operation the
\* freelist stack and the neighbor list share no slot, repeat no slot and
\* cover 0..maxAllocs-1, and the handles held have distinct metadata.
C25_SlotConservation == [](C25_SlotsPartitioned) /\ [][C25_FreshMetadata]_vars

\* C25 witness: an allocate has reused a slot that a merging free had put
\* back on the stack, and three handles are held.
C25_Witness ==
  /\ last.op = "allocate" /\ last.offset # NO_SPACE /\ fault = "none"
  /\ before.op = "free" /\ ~before.isolated
  /\ Cardinality(live) = 3 /\ Cardinality(InNeighborList) = 4
  /\ Cardinality(OnStack) = maxAllocs - 4

\* C26, between operations: m_freeStorage is the sum of dataSize over the
\* live free nodes and is at most N.
C26_FreeStorageIsSum ==
  fault = "none" =>
    /\ m_freeStorage = SumDataSizes(FreeSlots)
    /\ m_freeStorage >= 0 /\ m_freeStorage <= m_size

\* C26, the subtractions: allocate subtracts the size of the node it pops and
\* free the sizes of the neighbors it merges, and neither takes more than
\* m_freeStorage holds.
C26_NoBorrow ==
  /\ (AllocateStep /\ last'.offset # NO_SPACE /\ fault' = "none")
       => m_freeStorage >= m_nodes[last'.metadata].dataSize
  /\ (frees' = frees + 1 /\ fault' = "none")
       => m_freeStorage >= MergedSize(m_nodes[last'.metadata].neighborPrev)
                            + MergedSize(m_nodes[last'.metadata].neighborNext)

\* C26: after every operation m_freeStorage is the sum of dataSize over the
\* live free nodes, never more than N, and no subtraction in allocate or
\* removeNodeFromBin takes it below 0.
C26_FreeStorageExact == [](C26_FreeStorageIsSum) /\ [][C26_NoBorrow]_vars

\* C26 witness: a free has merged the region with both neighbors, two
\* subtractions in removeNodeFromBin, and free nodes of positive size remain
\* in two places.
C26_Witness ==
  /\ last.op = "free" /\ ~last.isolated /\ fault = "none"
  /\ Cardinality({s \in FreeSlots : m_nodes[s].dataSize > 0}) = 2
  /\ m_freeStorage > 0 /\ m_freeStorage < m_size
  /\ \E s \in FreeSlots :
       /\ m_nodes[s].dataOffset < last.offset
       /\ m_nodes[s].dataOffset + m_nodes[s].dataSize > last.offset + last.size

\* C27: an allocate(size) that succeeds takes the first node of the list of
\* the lowest occupied bin among the bins with index >= uintToFloatRoundUp(size):
\* never a node of a higher bin while a lower fitting bin is occupied, never a
\* node that is not first in its list.
C27_TakesHeadOfLowestFittingBin ==
  [][(AllocateStep /\ last'.offset # NO_SPACE /\ fault = "none")
     => \E fitting \in {FittingBins(last'.size)} :
          /\ fitting # {}
          /\ \A b \in fitting :
               (\A c \in fitting : b <= c) => last'.metadata = m_binIndices[b]
          /\ m_nodes[last'.metadata].binListPrev = unused
          /\ ~m_nodes[last'.metadata].used]_vars

\* C27 witness: an allocate has taken the node a free had just put in a bin,
\* while a higher bin that fits stays occupied and a lower bin that does not
\* fit is occupied too.
C27_Witness ==
  /\ last.op = "allocate" /\ last.offset # NO_SPACE /\ fault = "none"
  /\ before.op = "free" /\ before.metadata = last.metadata
  /\ \E c \in OccupiedBins : c > uintToFloatRoundUp(last.size)
  /\ \E c \in OccupiedBins : c < uintToFloatRoundUp(last.size)

\* C27, the case of a list of two: the last allocate left no remainder (the
\* node after the one it took is in use) and the bin it took the node from
\* is still occupied, so the node was the first of several.
C27_TakenFromListOfTwo ==
  /\ last.op = "allocate" /\ last.offset # NO_SPACE /\ fault = "none"
  /\ before.op = "free" /\ before.metadata = last.metadata
  /\ m_nodes[last.metadata].neighborNext # unused
  /\ m_nodes[m_nodes[last.metadata].neighborNext].used
  /\ m_binIndices[uintToFloatRoundDown(last.size)] # unused

\* C28 as claimed: in allocate, whenever the top scan finds a set bit at or
\* above minBinIndex >> 3, the leaf scan that follows finds a set bit too.
\* It does not hold.
C28_LeafScanNeverEmpty ==
  [][(AllocateStep /\ fault = "none")
     => \E bin \in {findBin(self, last'.size)} :
          bin.topBinIndex # NO_SPACE => bin.leafBinIndex # NO_SPACE]_vars

\* C28 as it holds: the leaf scan finds a set bit whenever the top scan
\* stopped at a word above minBinIndex >> 3; a leaf scan that comes up empty
\* was made in the word minBinIndex >> 3 itself, floored at minBinIndex & 7,
\* and allocate then returns NO_SPACE and changes nothing.
C28_LeafScanOfHigherWord ==
  [][(AllocateStep /\ fault = "none")
     => \E bin \in {findBin(self, last'.size)} :
          /\ (bin.topBinIndex # NO_SPACE /\ bin.topBinIndex > MinTopBinIndex(last'.size))
               => bin.leafBinIndex # NO_SPACE
          /\ (bin.topBinIndex # NO_SPACE /\ bin.leafBinIndex = NO_SPACE)
               => /\ bin.topBinIndex = MinTopBinIndex(last'.size)
                  /\ last'.offset = NO_SPACE /\ last'.metadata = NO_SPACE
                  /\ UNCHANGED allocatorVars]_vars

\* C28 witness: the last allocate returned NO_SPACE after a top scan that
\* found the word of minBinIndex and a leaf scan that found nothing in it,
\* with no bin occupied that fits the size.
C28_Witness ==
  /\ last.op = "allocate" /\ last.offset = NO_SPACE /\ fault = "none"
  /\ findBin(self, last.size).topBinIndex = MinTopBinIndex(last.size)
  /\ findBin(self, last.size).leafBinIndex = NO_SPACE
  /\ FittingBins(last.size) = {}
  /\ OccupiedBins # {}

\* C29 as claimed: between operations at most maxAllocs - 1 slots are off the
\* freelist stack, and the stack is never completely empty.  It does not
\* hold: nothing in the constructor or in allocate stops the pop of the last
\* slot.
C29_StackNeverEmpty ==
  fault = "none" =>
    /\ Cardinality(LiveSlots) <= maxAllocs - 1
    /\ m_freeOffset >= 0

\* C29, the state that refutes it in a pool of more than one slot: an
\* allocate has returned a handle and left every slot live, the stack empty.
C29_AllSlotsLive ==
  /\ last.op = "allocate" /\ last.offset # NO_SPACE /\ fault = "none"
  /\ maxAllocs > 1
  /\ LiveSlots = 0..(maxAllocs - 1)
  /\ m_freeOffset = -1

\* C30: two allocate calls of which each ran to its end before the other
\* began never return the same offset and metadata, and the regions they
\* return do not overlap; the same allocation returned twice is reached only
\* by calls that were under way together.
C30_SerialCallsDiffer ==
  (Returned(1) /\ Returned(2) /\ threads[1].alone /\ threads[2].alone) =>
    /\ ~(threads[1].offset = threads[2].offset /\ threads[1].metadata = threads[2].metadata)
    /\ threads[1].metadata # threads[2].metadata
    /\ \/ threads[1].offset + threads[1].size <= threads[2].offset
       \/ threads[2].offset + threads[2].size <= threads[1].offset

\* C30 witness: with no lock, both calls have read the same bin head and
\* returned the same offset and metadata for regions of positive size.
C30_Witness ==
  /\ Returned(1) /\ Returned(2) /\ fault = "none"
  /\ threads[1].nodeIndex = threads[2].nodeIndex
  /\ threads[1].offset = threads[2].offset
  /\ threads[1].metadata = threads[2].metadata
  /\ threads[1].size > 0 /\ threads[2].size > 0

\* C31: an allocate(size) that succeeds takes a node whose dataSize before
\* the call is at least size (as uint32), so reminderSize = nodeTotalSize -
\* size does not wrap; and allocate(size) with size above N, or above the
\* dataSize of every free node, returns NO_SPACE.
C31_TakenNodeHoldsSize ==
  [][(AllocateStep /\ fault = "none")
     => /\ last'.offset # NO_SPACE
             => /\ AtMost(last'.size, m_nodes[last'.metadata].dataSize)
                /\ last'.metadata \in FreeSlots
        /\ (\/ ~AtMost(last'.size, m_size)
            \/ \A s \in FreeSlots : ~AtMost(last'.size, m_nodes[s].dataSize))
             => last'.offset = NO_SPACE /\ last'.metadata = NO_SPACE]_vars

\* C31 witness: of a capacity of 0xF0000000 or more, an allocate of all but 3
\* units has succeeded and left the remainder of 3 after the region.
C31_Witness ==
  /\ last.op = "allocate" /\ last.offset # NO_SPACE /\ fault = "none"
  /\ m_size < 0 /\ last.size = m_size - 3
  /\ \E s \in FreeSlots :
       /\ m_nodes[s].dataSize = 3
       /\ m_nodes[s].dataOffset = last.offset + last.size
       /\ m_nodes[last.metadata].neighborNext = s

\* C32: from any state, an allocate(s) that succeeds followed at once by the
\* free of the handle it returned leaves the allocator as it was: the same
\* nodes in the same slots with the same offsets, sizes, used flags,
\* neighbor and bin links, the same bin heads and mask bits, the same
\* m_freeStorage, and the same freelist stack and cursor.
C32_AllocateThenFreeRestores ==
  fault = "none" =>
    \A size \in RequestSizes : \A garbage \in Garbage :
      \A r \in {allocate(self, size, garbage)} :
        (r.offset # NO_SPACE /\ r.a.fault = "none")
          => \A a \in {free(r.a, r.metadata)} :
               a.fault = "none" /\ Holds(a) = Holds(self)

\* C32 witness: the caller has allocated from a node that left a remainder
\* and freed the handle at once, while it holds another handle and a second
\* bin is occupied.
C32_Witness ==
  /\ before.op = "allocate" /\ before.offset # NO_SPACE
  /\ last.op = "free" /\ last.metadata = before.metadata /\ ~last.isolated
  /\ last.size > 0 /\ fault = "none"
  /\ live # {} /\ Cardinality(OccupiedBins) = 2
  /\ ~m_nodes[last.metadata].used
  /\ m_nodes[last.metadata].dataSize > last.size

\* C33, between operations: the nodes off the freelist stack are the nodes of
\* the handles held and the free nodes, and there are at most twice as many
\* as handles held, plus one.
C33_NodesCounted ==
  fault = "none" =>
    /\ {s \in LiveSlots : m_nodes[s].used} = {h.metadata : h \in live}
    /\ Cardinality(LiveSlots) = Cardinality(live) + Cardinality(FreeSlots)
    /\ Cardinality(LiveSlots) <= 2 * Cardinality(live) + 1

\* C33, the pool: a call made by a caller that holds no more than A handles,
\* the one an allocate is about to return counted, in a pool of at least
\* 2A + 1 slots, does not run out of slots.
C33_PoolSuffices ==
  (/\ fault = "none"
   /\ maxAllocs >= 2 * (Cardinality(live) + (IF AllocateStep THEN 1 ELSE 0)) + 1)
    => fault' = "none"

\* C33: with the calls made as they should be, the number of live nodes is
\* (live allocations) + (free nodes) and at most 2 * (live allocations) + 1,
\* and a caller that never holds more than A allocations never exhausts a
\* pool of 2A + 1 slots or more.
C33_NodeCountBounded == [](C33_NodesCounted) /\ [][C33_PoolSuffices]_vars

\* C33 witness: two handles are held and five nodes are live, every other
\* one of them free: the bound is met.
C33_Witness ==
  /\ fault = "none" /\ Cardinality(live) = 2
  /\ Cardinality(LiveSlots) = 5 /\ Cardinality(FreeSlots) = 3
  /\ last.op = "free"

\* C34: in every state where storageReport().largestFreeRegion is L > 0 and
\* the freelist stack holds a slot, allocate(L) returns an allocation.
C34_LargestRegionAllocatable ==
  (fault = "none" /\ InRange(m_freeOffset, maxAllocs)) =>
    \A report \in storageReport(self) :
      report.largestFreeRegion # 0 =>
        \A r \in {allocate(self, report.largestFreeRegion, unused)} :
          /\ r.offset # NO_SPACE /\ r.metadata # NO_SPACE
          /\ r.a.fault = "none"
          /\ r.a.m_nodes[r.metadata].dataSize = report.largestFreeRegion

\* C34 witness: the only free node left had 2 units, the largest free region
\* reported, and allocate(2) has taken it while two other handles are held.
C34_Witness ==
  /\ last.op = "allocate" /\ last.size = 2 /\ last.offset # NO_SPACE
  /\ fault = "none" /\ InRange(m_freeOffset, maxAllocs)
  /\ m_usedBinsTop = 0 /\ m_freeStorage = 0
  /\ Cardinality(live) = 3
  /\ m_nodes[last.metadata].neighborNext = unused

\* C35: free of a handle held needs no slot beyond those it pushes itself.
\* It goes through without a fault whatever the freelist stack holds, also
\* when the stack is empty (m_freeOffset = 0xFFFFFFFF, here -1, goes to 0 on
\* the push); the combined free node is in the slot of the freed allocation
\* and spans the freed region and the merged free neighbors; and the stack
\* afterwards is the stack before with the slots of the merged neighbors on
\* top, the previous one below the next one: 0, 1 or 2 slots more.
C35_FreeNeedsNoSlot ==
  [][(frees' = frees + 1 /\ last'.op = "free" /\ fault = "none")
       => \E nodeIndex \in {last'.metadata} :
          \E merged \in {SelectSeq(<<m_nodes[nodeIndex].neighborPrev,
                                      m_nodes[nodeIndex].neighborNext>>,
                                    LAMBDA neighbor : isFreeNeighbor(self, neighbor))} :
            /\ fault' = "none"
            /\ nodeIndex \in FreeSlots'
            /\ m_nodes'[nodeIndex].dataSize =
                 m_nodes[nodeIndex].dataSize
                   + MergedSize(m_nodes[nodeIndex].neighborPrev)
                   + MergedSize(m_nodes[nodeIndex].neighborNext)
            /\ m_nodes'[nodeIndex].dataOffset =
                 IF isFreeNeighbor(self, m_nodes[nodeIndex].neighborPrev)
                 THEN m_nodes[m_nodes[nodeIndex].neighborPrev].dataOffset
                 ELSE m_nodes[nodeIndex].dataOffset
            /\ m_freeOffset' = m_freeOffset + Len(merged)
            /\ \A i \in 0..m_freeOffset : m_freeNodes'[i] = m_freeNodes[i]
            /\ \A i \in 1..Len(merged) : m_freeNodes'[m_freeOffset + i] = merged[i]]_vars

\* C35 witness: a free made while the freelist stack was empty has merged
\* one free neighbor, whose slot is now the only one on the stack; the
\* combined node is in the slot of the freed allocation.
C35_Witness ==
  /\ last.op = "free" /\ ~last.isolated /\ fault = "none"
  /\ m_freeOffset = 0
  /\ last.metadata \in FreeSlots
  /\ m_freeNodes[0] # last.metadata
  /\ Below(last.size, m_nodes[last.metadata].dataSize)

====
